---- MODULE Spec2Model ----
(***************************************************************************)
(* A model of the mDNS discovery engine: socket provisioning               *)
(* (mdns_interface), the query sender (mDNSSender::send_request), the      *)
(* response listener (mDNSListener::listen) and the discovery coordinator  *)
(* (all, interface, Discovery::ignore_empty, Discovery::listen,            *)
(* DiscoveryScanner::scan).                                                *)
(***************************************************************************)
EXTENDS Integers, Sequences, FiniteSets, TLC

\* ------------------------------------------------------------------ bounds
\* Number of recv_from completions explored per session.
MaxRecv == 3
\* Number of scan calls explored per session.
MaxScans == 2
\* Number of interfaces the platform enumeration may return.
MaxIfaces == 3
\* Number of times the caller clones the Scanner.
MaxClones == 1

\* --------------------------------------------------------------- constants
\* const ADDR_ANY: Ipv4Addr = 0.0.0.0 ; interface addresses are 1..MaxIfaces.
ADDR_ANY == 0

\* Service names a caller may ask for, and names answer records may carry.
Foo == "_foo._tcp.local"
Bar == "_bar._tcp.local"
Names == {Foo, Bar}

\* -------------------------------------------------------------- the platform
\* What the host does when asked: the outcome of every fallible call made by
\* mdns_interface.  ifaces is the result of if_addrs::get_if_addrs() (when
\* enum_ok), joinable the set of interface addresses on which
\* join_multicast_v4 succeeds, register_ok the outcome of
\* tokio's UdpSocket::from_std.
IfaceKinds == {"v4", "v6", "loopback"}

Iface(a, k) == [addr |-> a, kind |-> k]

RECURSIVE IfaceLists(_)
IfaceLists(n) ==
    IF n = 0 THEN {<<>>}
    ELSE LET shorter == IfaceLists(n - 1)
         IN  shorter \cup
             {Append(l, Iface(n, k)) : l \in {s \in shorter : Len(s) = n - 1},
                                       k \in IfaceKinds}

Runtimes == {"tokio", "async_std"}

Platforms ==
    [create_ok   : BOOLEAN,
     loop_ok     : BOOLEAN,
     nonblock_ok : BOOLEAN,
     enum_ok     : BOOLEAN,
     ifaces      : IfaceLists(MaxIfaces),
     joinable    : SUBSET (0 .. MaxIfaces),
     runtime     : Runtimes,
     register_ok : BOOLEAN]

\* At most one of the socket-level calls fails on a given host; async-std's
\* conversion has no failure outcome; a failed enumeration returns no list.
SetupPlatforms ==
    {p \in Platforms :
        /\ Cardinality({f \in {"c", "l", "n"} :
                            \/ f = "c" /\ ~p.create_ok
                            \/ f = "l" /\ ~p.loop_ok
                            \/ f = "n" /\ ~p.nonblock_ok}) <= 1
        /\ (p.runtime = "async_std" => p.register_ok)
        /\ (~p.enum_ok => p.ifaces = <<>>)}

\* Hosts used when the behaviour of an open session is explored: no interface
\* is enumerated and only the wildcard join decides.
StreamPlatforms ==
    {p \in SetupPlatforms :
        /\ p.create_ok /\ p.loop_ok /\ p.nonblock_ok /\ p.enum_ok
        /\ p.ifaces = <<>>
        /\ p.joinable \subseteq {ADDR_ANY}
        /\ p.runtime = "tokio" /\ p.register_ok}

\* ------------------------------------------------------------ mdns_interface
None == [some |-> FALSE]
Some(a) == [some |-> TRUE, val |-> a]

\* socket.join_multicast_v4(&MULTICAST_ADDR, &addr): Ok iff the host accepts it.
join_multicast_v4(p, a) == a \in p.joinable

\* .filter(|iface| !iface.is_loopback()).filter_map(IpAddr::V4): the addresses
\* the all-interfaces loop iterates over, in enumeration order.
RECURSIVE NonLoopbackV4(_)
NonLoopbackV4(ifaces) ==
    IF ifaces = <<>> THEN <<>>
    ELSE LET i == Head(ifaces)
         IN  IF i.kind = "v4" THEN <<i.addr>> \o NonLoopbackV4(Tail(ifaces))
             ELSE NonLoopbackV4(Tail(ifaces))

NoJoins == [joins |-> <<>>, did_join |-> FALSE]

\* A join loop that overwrites did_join with the outcome of the latest join
\* (did_join = join(..).is_ok()) instead of only ever setting it.
RECURSIVE JoinLoopLastWins(_, _, _)
JoinLoopLastWins(p, addrs, st) ==
    IF addrs = <<>> THEN st
    ELSE LET a  == Head(addrs)
             ok == join_multicast_v4(p, a)
         IN  JoinLoopLastWins(p, Tail(addrs),
                      [joins    |-> Append(st.joins, [addr |-> a, ok |-> ok]),
                       did_join |-> ok])

\* for iface in ... { if socket.join_multicast_v4(..).is_ok() { did_join = true } }
RECURSIVE JoinLoop(_, _, _)
JoinLoop(p, addrs, st) ==
    IF addrs = <<>> THEN st
    ELSE LET a  == Head(addrs)
             ok == join_multicast_v4(p, a)
         IN  JoinLoop(p, Tail(addrs),
                      [joins    |-> Append(st.joins, [addr |-> a, ok |-> ok]),
                       did_join |-> st.did_join \/ ok])

\* A specific-interface join that falls back to the wildcard address when the
\* requested interface refuses the join.
JoinSpecificFallback(p, a) ==
    LET ok == join_multicast_v4(p, a)
    IN  IF ok THEN [joins |-> <<[addr |-> a, ok |-> TRUE]>>, ok |-> TRUE]
        ELSE [joins |-> <<[addr |-> a, ok |-> FALSE],
                          [addr |-> ADDR_ANY, ok |-> join_multicast_v4(p, ADDR_ANY)]>>,
              ok    |-> join_multicast_v4(p, ADDR_ANY)]

\* if let Some(interface) = interface { socket.join_multicast_v4(.., &interface)?; }
JoinSpecific(p, a) ==
    LET ok == join_multicast_v4(p, a)
    IN  [joins |-> <<[addr |-> a, ok |-> ok]>>, ok |-> ok]

\* An all-interfaces join without the `if !did_join` test: the wildcard
\* address is joined in every case and its error is returned.
JoinAllAlwaysWildcard(p) ==
    LET looped == IF p.enum_ok
                  THEN JoinLoop(p, NonLoopbackV4(p.ifaces), NoJoins)
                  ELSE NoJoins
        ok == join_multicast_v4(p, ADDR_ANY)
    IN  [joins |-> Append(looped.joins, [addr |-> ADDR_ANY, ok |-> ok]), ok |-> ok]

\* An all-interfaces join that returns the error of get_if_addrs()
\* (`get_if_addrs()?` instead of `if let Ok(ifaces)`).
JoinAllEnumFatal(p) ==
    IF ~p.enum_ok THEN [joins |-> <<>>, ok |-> FALSE]
    ELSE LET looped == JoinLoop(p, NonLoopbackV4(p.ifaces), NoJoins)
         IN  IF ~looped.did_join
             THEN LET ok == join_multicast_v4(p, ADDR_ANY)
                  IN  [joins |-> Append(looped.joins, [addr |-> ADDR_ANY, ok |-> ok]),
                       ok    |-> ok]
             ELSE [joins |-> looped.joins, ok |-> TRUE]

\* else { ...; if !did_join { socket.join_multicast_v4(.., &ADDR_ANY)?; } }
JoinAll(p) ==
    LET looped == IF p.enum_ok
                  THEN JoinLoop(p, NonLoopbackV4(p.ifaces), NoJoins)
                  ELSE NoJoins
    IN  IF ~looped.did_join
        THEN LET ok == join_multicast_v4(p, ADDR_ANY)
             IN  [joins |-> Append(looped.joins, [addr |-> ADDR_ANY, ok |-> ok]),
                  ok    |-> ok]
        ELSE [joins |-> looped.joins, ok |-> TRUE]

\* The join phase of mdns_interface: the log of join attempts and whether the
\* phase ended without an error.
JoinPhase(p, interface) ==
    IF interface.some THEN JoinSpecific(p, interface.val) ELSE JoinAll(p)

\* crate::runtime::make_async_socket: tokio's from_std can fail, async-std's
\* From conversion cannot.
make_async_socket(p) ==
    IF p.runtime = "tokio" THEN p.register_ok ELSE TRUE

\* A setup that discards the result of the join phase (no `?` on the joins).
mdns_interface_unchecked_join(p, service_name, interface) ==
    LET fail(at, joins) ==
            [ok |-> FALSE, failed_at |-> at, created |-> at # "create_socket",
             joins |-> joins, service_name |-> service_name]
    IN  IF ~p.create_ok THEN fail("create_socket", <<>>)
        ELSE IF ~p.loop_ok THEN fail("set_multicast_loop_v4", <<>>)
        ELSE IF ~p.nonblock_ok THEN fail("set_nonblocking", <<>>)
        ELSE LET j == JoinPhase(p, interface)
             IN  IF ~make_async_socket(p) THEN fail("make_async_socket", j.joins)
                 ELSE [ok |-> TRUE, failed_at |-> "none", created |-> TRUE,
                       joins |-> j.joins, service_name |-> service_name]

\* mdns_interface(service_name, interface): the result and what happened to the
\* socket on the way.  failed_at names the call whose error was returned.
mdns_interface(p, service_name, interface) ==
    LET fail(at, joins) ==
            [ok |-> FALSE, failed_at |-> at, created |-> at # "create_socket",
             joins |-> joins, service_name |-> service_name]
    IN  IF ~p.create_ok THEN fail("create_socket", <<>>)
        ELSE IF ~p.loop_ok THEN fail("set_multicast_loop_v4", <<>>)
        ELSE IF ~p.nonblock_ok THEN fail("set_nonblocking", <<>>)
        ELSE LET j == JoinPhase(p, interface)
             IN  IF ~j.ok THEN fail("join_multicast_v4", j.joins)
                 ELSE IF ~make_async_socket(p) THEN fail("make_async_socket", j.joins)
                 ELSE [ok |-> TRUE, failed_at |-> "none", created |-> TRUE,
                       joins |-> j.joins, service_name |-> service_name]

\* ------------------------------------------------------- datagrams and codec
\* An answer record of a decoded packet (its name is all the filter reads).
Record(n) == [name |-> n]

\* The answer sections inbound packets carry.
AnswerLists ==
    {<<>>, <<Record(Foo)>>, <<Record(Bar)>>,
     <<Record(Foo), Record(Bar)>>, <<Record(Bar), Record(Foo)>>}

NoPacket == [valid |-> FALSE, answers |-> <<>>]
Packet(a) == [valid |-> TRUE, answers |-> a]

\* What recv_from can place in the receive buffer: count bytes which the codec
\* either decodes to a packet or rejects.
Datagram(c, pk) == [count |-> c, packet |-> pk]
ZeroLength == Datagram(0, NoPacket)
Malformed == Datagram(5, NoPacket)
Datagrams ==
    {ZeroLength, Malformed} \cup {Datagram(12 + Len(a), Packet(a)) : a \in AnswerLists}

\* The outcomes of self.recv.recv_from(&mut self.recv_buffer).await .
RecvErr == [ok |-> FALSE, dgram |-> ZeroLength]
RecvOk(d) == [ok |-> TRUE, dgram |-> d]
RecvResults == {RecvErr} \cup {RecvOk(d) : d \in Datagrams}

\* dns_parser::Packet::parse(&self.recv_buffer[..count]).is_ok()
parse_ok(d) == d.packet.valid

\* Response::from_packet(&raw_packet, addr)
from_packet(pk) == [answers |-> pk.answers]

\* Response::is_empty
is_empty(response) == response.answers = <<>>

\* Items of the response sequences.
OkItem(response) == [tag |-> "Ok", response |-> response]
ErrItem == [tag |-> "Err", response |-> [answers |-> <<>>]]

\* --------------------------------------------------------- mDNSListener::listen
\* What one loop iteration did: the item it yielded (if any), whether the
\* generator returned, and whether the buffer was handed to the decoder.
Iteration(y, d, p) == [yield |-> y, done |-> d, decoded |-> p]

\* A loop body that keeps receiving after a failed recv_from (the error is
\* yielded without ending the generator).
listen_iteration_continue(r) ==
    IF ~r.ok THEN Iteration(Some(ErrItem), FALSE, FALSE)
    ELSE IF r.dgram.count > 0
         THEN IF parse_ok(r.dgram)
              THEN Iteration(Some(OkItem(from_packet(r.dgram.packet))), FALSE, TRUE)
              ELSE Iteration(None, FALSE, TRUE)
         ELSE Iteration(None, FALSE, FALSE)

\* A loop body that surfaces a decode failure as an Err item.
listen_iteration_decode_err(r) ==
    IF ~r.ok THEN Iteration(Some(ErrItem), TRUE, FALSE)
    ELSE IF r.dgram.count > 0
         THEN IF parse_ok(r.dgram)
              THEN Iteration(Some(OkItem(from_packet(r.dgram.packet))), FALSE, TRUE)
              ELSE Iteration(Some(ErrItem), TRUE, TRUE)
         ELSE Iteration(None, FALSE, FALSE)

\* A loop body without the `if count > 0` test: every received buffer goes to
\* the decoder.
listen_iteration_no_count_test(r) ==
    IF ~r.ok THEN Iteration(Some(ErrItem), TRUE, FALSE)
    ELSE IF parse_ok(r.dgram)
         THEN Iteration(Some(OkItem(from_packet(r.dgram.packet))), FALSE, TRUE)
         ELSE Iteration(None, FALSE, TRUE)

\* One iteration of the loop inside try_stream!: what it yields for the
\* outcome r of recv_from, and whether the generator has returned (the `?`
\* on a failed recv_from yields the error and ends the stream).
listen_iteration(r) ==
    IF ~r.ok THEN Iteration(Some(ErrItem), TRUE, FALSE)
    ELSE IF r.dgram.count > 0
         THEN IF parse_ok(r.dgram)
              THEN Iteration(Some(OkItem(from_packet(r.dgram.packet))), FALSE, TRUE)
              ELSE Iteration(None, FALSE, TRUE)
         ELSE Iteration(None, FALSE, FALSE)

\* A listener that drains the socket whether or not the caller is polling
\* (receiving in a task of its own).
may_recv_eager(st, awaiting) == st = "active"

\* The generator body runs only inside poll_next: recv_from is awaited only
\* while the caller is polling a sequence that has not ended.
may_recv(st, awaiting) == st = "active" /\ awaiting

\* ------------------------------------------------------- Arc<AsyncUdpSocket>
\* The shared socket: whether the OS socket is open, and the number of live
\* handles (the Arc's strong count).
NoSocket == [open |-> FALSE, strong |-> 0]

\* Arc::new(AsyncUdpSocket::from(socket))
arc_new == [open |-> TRUE, strong |-> 1]

\* A clone that shares the socket without taking a strong reference.
arc_clone_uncounted(a) == a

\* socket.clone()
arc_clone(a) == [a EXCEPT !.strong = a.strong + 1]

\* A handle whose drop closes the socket although other handles remain.
arc_drop_closes(a) == [open |-> FALSE, strong |-> a.strong - 1]

\* Dropping a handle: the socket is closed when the last one goes.
arc_drop(a) == [open |-> a.strong - 1 > 0, strong |-> a.strong - 1]

\* ----------------------------------------------------------- Discovery::listen
AnyName(answers, service_name) ==
    \E i \in DOMAIN answers : answers[i].name = service_name

\* A filter requiring every answer record to carry the service name.
filter_all(service_name, ignore_empty, res) ==
    IF res.tag = "Ok"
    THEN /\ (~is_empty(res.response) \/ ~ignore_empty)
         /\ \A i \in DOMAIN res.response.answers :
                res.response.answers[i].name = service_name
    ELSE TRUE

\* A filter that lost the negation of is_empty and joins the tests with ||.
filter_keep_empty(service_name, ignore_empty, res) ==
    IF res.tag = "Ok"
    THEN \/ (is_empty(res.response) \/ ~ignore_empty)
         \/ AnyName(res.response.answers, service_name)
    ELSE TRUE

\* A filter that swallows transport errors.
filter_drop_err(service_name, ignore_empty, res) ==
    IF res.tag = "Ok"
    THEN /\ (~is_empty(res.response) \/ ~ignore_empty)
         /\ AnyName(res.response.answers, service_name)
    ELSE FALSE

\* The closure given to .filter(..): whether res is forwarded to the caller.
filter(service_name, ignore_empty, res) ==
    IF res.tag = "Ok"
    THEN /\ (~is_empty(res.response) \/ ~ignore_empty)
         /\ AnyName(res.response.answers, service_name)
    ELSE TRUE

\* A forwarding step that hands the newest item over ahead of the earlier ones.
ForwardFirst(out, x) == <<x>> \o out

\* The filtered stream hands each accepted item to the caller as it is yielded.
Forward(out, x) == Append(out, x)

\* --------------------------------------------------- mDNSSender::send_request
\* The query built by dns_parser::Builder::new_query(0, false) with one
\* question, addressed to the multicast endpoint.
Query(service_name) ==
    [id |-> 0, qname |-> service_name, qtype |-> "PTR", qclass |-> "IN",
     prefer_unicast |-> FALSE, dst |-> "224.0.0.251:5353"]

\* A sender that transmits the query twice per call.
send_request_twice(sender, w, send_ok) ==
    IF send_ok
    THEN [result |-> "Ok", wire |-> w \o <<Query(sender.service_name), Query(sender.service_name)>>]
    ELSE [result |-> "Err", wire |-> w]

\* A sender that transmits once more after a failed send_to, still reporting
\* the first failure.
send_request_retry(sender, w, send_ok) ==
    IF send_ok
    THEN [result |-> "Ok", wire |-> Append(w, Query(sender.service_name))]
    ELSE [result |-> "Err", wire |-> Append(w, Query(sender.service_name))]

\* send_request: one send_to on the shared socket; its failure is the call's
\* result and nothing reaches the wire.
send_request(sender, w, send_ok) ==
    IF send_ok
    THEN [result |-> "Ok", wire |-> Append(w, Query(sender.service_name))]
    ELSE [result |-> "Err", wire |-> w]

\* ----------------------------------------------------------------- the state
VARIABLES
    platform,     \* the host: outcome of every fallible platform call
    phase,        \* "start" | "built" | "listening" | "failed"
    setup,        \* the result of mdns_interface, and the selector it was given
    discovery,    \* the Discovery value: service_name, ignore_empty
    sender,       \* the mDNSSender: service_name, and whether it is still held
    stream,       \* the response sequence: "none" | "active" | "done" | "dropped"
    captured,     \* (service_name, ignore_empty) moved into the filter closure
    recv_buffer,  \* the listener's receive buffer: the datagram last received
    recvLog,      \* every outcome recv_from has returned, in order
    yielded,      \* items yielded by mDNSListener::listen, with their origin
    forwarded,    \* items handed to the caller, with their origin
    endSeen,      \* the caller has been told end-of-sequence
    scanLog,      \* the result of every scan call, in order
    wire,         \* query datagrams sent on the socket, in order
    socket,       \* the Arc<AsyncUdpSocket>: open, strong count
    senders,      \* number of live mDNSSender values (Discovery's, Scanners')
    polling,      \* the caller is inside next() on the response sequence
    decodeLog     \* the receives whose buffer was handed to the decoder

vars == <<platform, phase, setup, discovery, sender, stream, captured,
          recv_buffer, recvLog, yielded, forwarded, endSeen, scanLog, wire,
          socket, senders, polling, decodeLog>>

setupVars == <<setup, discovery, sender>>
recvVars == <<recv_buffer, recvLog, yielded, forwarded, endSeen, polling, decodeLog>>
sendVars == <<scanLog, wire>>
arcVars == <<socket, senders>>

NoSetup == [called |-> FALSE, interface |-> None,
            result |-> [ok |-> FALSE, failed_at |-> "none", created |-> FALSE,
                        joins |-> <<>>, service_name |-> ""]]
NoDiscovery == [service_name |-> "", ignore_empty |-> TRUE]
NoSender == [service_name |-> "", held |-> FALSE]

InitSession ==
    /\ phase = "start"
    /\ setup = NoSetup
    /\ discovery = NoDiscovery
    /\ sender = NoSender
    /\ stream = "none"
    /\ captured = NoDiscovery
    /\ recv_buffer = ZeroLength
    /\ recvLog = <<>>
    /\ yielded = <<>>
    /\ forwarded = <<>>
    /\ endSeen = FALSE
    /\ scanLog = <<>>
    /\ wire = <<>>
    /\ socket = NoSocket
    /\ senders = 0
    /\ polling = FALSE
    /\ decodeLog = {}

Init == platform \in StreamPlatforms /\ InitSession

InitSetup == platform \in SetupPlatforms /\ InitSession

\* ------------------------------------------------------------------ actions
\* The body shared by all() and interface(): call mdns_interface and, on Ok,
\* build the Discovery with ignore_empty: true.
Open(service_name, selector) ==
    LET r == mdns_interface(platform, service_name, selector)
    IN  /\ phase = "start"
        /\ setup' = [called |-> TRUE, interface |-> selector, result |-> r]
        /\ IF r.ok
           THEN /\ phase' = "built"
                /\ discovery' = [service_name |-> service_name, ignore_empty |-> TRUE]
                /\ sender' = [service_name |-> r.service_name, held |-> TRUE]
                /\ socket' = arc_clone(arc_new)
                /\ senders' = 1
           ELSE /\ phase' = "failed"
                /\ UNCHANGED <<discovery, sender, socket, senders>>
        /\ UNCHANGED <<platform, stream, captured, recvVars, sendVars>>

\* pub fn all(service_name)
all(service_name) == Open(service_name, None)

\* pub fn interface(service_name, interface_addr)
interface(service_name, interface_addr) == Open(service_name, Some(interface_addr))

\* A builder that rebuilds the Discovery around the flag and loses the
\* service name.
ignore_empty_rebuild(ignore) ==
    /\ phase = "built"
    /\ discovery' = [service_name |-> "", ignore_empty |-> ignore]
    /\ UNCHANGED <<platform, phase, setup, sender, stream, captured, recvVars, sendVars,
                   arcVars>>

\* Discovery::ignore_empty(self, ignore)
ignore_empty(ignore) ==
    /\ phase = "built"
    /\ discovery' = [discovery EXCEPT !.ignore_empty = ignore]
    /\ UNCHANGED <<platform, phase, setup, sender, stream, captured, recvVars, sendVars,
                   arcVars>>

\* Discovery::listen(self): the Scanner takes the sender, the closure takes
\* service_name and ignore_empty, the listener becomes the response sequence.
listen ==
    /\ phase = "built"
    /\ phase' = "listening"
    /\ captured' = discovery
    /\ stream' = "active"
    /\ UNCHANGED <<platform, setup, discovery, sender, recvVars, sendVars, arcVars>>

\* The caller calls next() on the response sequence and awaits it.
Poll ==
    /\ stream = "active"
    /\ ~polling
    /\ polling' = TRUE
    /\ UNCHANGED <<platform, phase, setupVars, stream, captured, recv_buffer, recvLog,
                   yielded, forwarded, endSeen, decodeLog, sendVars, arcVars>>

\* Inside next(), recv_from completes with r: one iteration of the listener
\* loop, then the filter on what it yielded.  next() returns when an item is
\* forwarded; otherwise the loop awaits the next datagram.  When the generator
\* returns, the mDNSListener it owns is dropped.
ListenRecv(r) ==
    /\ may_recv(stream, polling)
    /\ Len(recvLog) < MaxRecv
    /\ LET it == listen_iteration(r)
           n  == Len(recvLog) + 1
           x  == [from |-> n, item |-> it.yield.val]
       IN  /\ recvLog' = Append(recvLog, r)
           /\ recv_buffer' = IF r.ok THEN r.dgram ELSE recv_buffer
           /\ yielded' = IF it.yield.some THEN Append(yielded, x) ELSE yielded
           /\ forwarded' =
                 IF it.yield.some
                    /\ filter(captured.service_name, captured.ignore_empty, it.yield.val)
                 THEN Forward(forwarded, x)
                 ELSE forwarded
           /\ stream' = IF it.done THEN "done" ELSE "active"
           /\ decodeLog' = IF it.decoded THEN decodeLog \cup {n} ELSE decodeLog
           /\ polling' = (forwarded' = forwarded)
           /\ socket' = IF it.done THEN arc_drop(socket) ELSE socket
    /\ UNCHANGED <<platform, phase, setupVars, captured, endSeen, sendVars, senders>>

\* The caller polls a sequence whose generator has returned: end-of-sequence,
\* and the socket is not touched.
PollEnded ==
    /\ stream = "done"
    /\ ~endSeen
    /\ endSeen' = TRUE
    /\ UNCHANGED <<platform, phase, setupVars, stream, captured, recv_buffer, recvLog,
                   yielded, forwarded, polling, decodeLog, sendVars, arcVars>>

\* The caller stops consuming and drops the response sequence.
DropStream ==
    /\ stream \in {"active", "done"}
    /\ stream' = "dropped"
    /\ polling' = FALSE
    /\ socket' = IF stream = "active" THEN arc_drop(socket) ELSE socket
    /\ UNCHANGED <<platform, phase, setupVars, captured, recv_buffer, recvLog,
                   yielded, forwarded, endSeen, decodeLog, sendVars, senders>>

\* DiscoveryScanner::scan: self.0.send_request().await, send_to completing
\* with send_ok.
scan(send_ok) ==
    /\ phase = "listening"
    /\ sender.held
    /\ Len(scanLog) < MaxScans
    /\ LET r == send_request(sender, wire, send_ok)
       IN  /\ scanLog' = Append(scanLog, r.result)
           /\ wire' = r.wire
    /\ UNCHANGED <<platform, phase, setupVars, stream, captured, recvVars, arcVars>>

\* DiscoveryScanner::clone (derived): one more mDNSSender on the same socket.
CloneScanner ==
    /\ phase = "listening"
    /\ sender.held
    /\ senders < 1 + MaxClones
    /\ senders' = senders + 1
    /\ socket' = arc_clone(socket)
    /\ UNCHANGED <<platform, phase, setupVars, stream, captured, recvVars, sendVars>>

\* The caller drops a Scanner.
DropScanner ==
    /\ phase = "listening"
    /\ sender.held
    /\ senders' = senders - 1
    /\ sender' = [sender EXCEPT !.held = senders' > 0]
    /\ socket' = arc_drop(socket)
    /\ UNCHANGED <<platform, phase, setup, discovery, stream, captured, recvVars, sendVars>>

Addrs == 0 .. MaxIfaces

Next ==
    \/ \E n \in Names : all(n)
    \/ \E n \in Names, a \in Addrs : interface(n, a)
    \/ \E b \in BOOLEAN : ignore_empty(b)
    \/ listen
    \/ Poll
    \/ \E r \in RecvResults : ListenRecv(r)
    \/ PollEnded
    \/ DropStream
    \/ \E ok \in BOOLEAN : scan(ok)
    \/ CloneScanner
    \/ DropScanner

Spec == Init /\ [][Next]_vars

\* Session setup on every host of SetupPlatforms.
NextSetup ==
    \/ \E n \in Names : all(n)
    \/ \E n \in Names, a \in Addrs : interface(n, a)
    \/ \E b \in BOOLEAN : ignore_empty(b)
    \/ listen

SpecSetup == InitSetup /\ [][NextSetup]_vars

\* ------------------------------------------------------------------- claims
\* Helpers of the statements below: they read the histories only.
OkYields == {k \in DOMAIN yielded : yielded[k].item.tag = "Ok"}
ForwardedFrom(n) == \E j \in DOMAIN forwarded : forwarded[j].from = n
AnswerNames(x) == {x.item.response.answers[i].name : i \in DOMAIN x.item.response.answers}
Listening == stream # "none"

\* C1: a received Ok(Response) with at least one answer record is forwarded
\* if and only if some answer record is named the session's service name,
\* whatever ignore_empty is.
C1_ForwardIffNameMatch ==
    \A k \in OkYields :
        yielded[k].item.response.answers # <<>> =>
            (ForwardedFrom(yielded[k].from) <=>
                captured.service_name \in AnswerNames(yielded[k]))

\* C1 witness: with ignore_empty = false, a response carrying the service name
\* next to another name was forwarded and a response with only other names
\* was dropped.
C1_Witness ==
    /\ Listening /\ ~captured.ignore_empty
    /\ \E k \in OkYields :
          /\ Cardinality(AnswerNames(yielded[k])) = 2
          /\ ForwardedFrom(yielded[k].from)
    /\ \E k \in OkYields :
          /\ yielded[k].item.response.answers # <<>>
          /\ captured.service_name \notin AnswerNames(yielded[k])
          /\ ~ForwardedFrom(yielded[k].from)

\* C2 (as claimed): with ignore_empty = false, every received response with
\* zero answer records is forwarded.
C2_EmptyForwardedWhenTolerated ==
    (Listening /\ ~captured.ignore_empty) =>
        \A k \in OkYields :
            yielded[k].item.response.answers = <<>> => ForwardedFrom(yielded[k].from)

\* C3: with ignore_empty = true a response without answer records is never
\* forwarded, and all() and interface() build the session with
\* ignore_empty = true.
C3_EmptyNeverForwarded ==
    /\ [][phase = "start" /\ phase' = "built" => discovery'.ignore_empty]_vars
    /\ []((Listening /\ captured.ignore_empty) =>
            \A k \in OkYields :
                yielded[k].item.response.answers = <<>> =>
                    ~ForwardedFrom(yielded[k].from))

\* C3 witness: a session listening with ignore_empty = true has received a
\* response without answer records (and kept it from the caller).
C3_Witness ==
    /\ Listening /\ captured.ignore_empty
    /\ \E k \in OkYields :
          /\ yielded[k].item.response.answers = <<>>
          /\ ~ForwardedFrom(yielded[k].from)

\* C4: every failed recv_from reaches the caller as the Err item the listener
\* yielded for it; the filter drops no Err, whatever the service name and
\* ignore_empty.
C4_ErrAlwaysForwarded ==
    /\ \A n \in DOMAIN recvLog :
          ~recvLog[n].ok =>
              \E j \in DOMAIN forwarded : forwarded[j] = [from |-> n, item |-> ErrItem]
    /\ \A k \in DOMAIN yielded :
          yielded[k].item.tag = "Err" =>
              \E j \in DOMAIN forwarded : forwarded[j] = yielded[k]

\* C4 witness: a recv_from failed and its Err item is in the caller's hands.
C4_Witness ==
    \E n \in DOMAIN recvLog, j \in DOMAIN forwarded :
        /\ ~recvLog[n].ok
        /\ forwarded[j].from = n /\ forwarded[j].item.tag = "Err"

FirstErr == {n \in DOMAIN recvLog : ~recvLog[n].ok}

C6_MalformedSkipped ==
    \A n \in DOMAIN recvLog :
        LET r == recvLog[n]
            here == {k \in DOMAIN yielded : yielded[k].from = n}
        IN  /\ (r.ok /\ ~r.dgram.packet.valid) =>
                  /\ here = {}
                  /\ ~ForwardedFrom(n)
                  /\ (n = Len(recvLog) => stream \in {"active", "dropped"})
            /\ (r.ok /\ r.dgram.packet.valid) =>
                  \E k \in here :
                      yielded[k].item =
                          [tag |-> "Ok", response |-> [answers |-> r.dgram.packet.answers]]

\* C6 witness: two malformed datagrams were received and then a valid one,
\* which was yielded.
C6_Witness ==
    /\ Len(recvLog) = 3
    /\ recvLog[1] = RecvOk(Malformed) /\ recvLog[2] = RecvOk(Malformed)
    /\ recvLog[3].ok /\ recvLog[3].dgram.packet.valid
    /\ yielded # <<>> /\ yielded[Len(yielded)].from = 3

\* C7: the wire carries exactly one query datagram per successful scan call,
\* in every state of the listener side.
C7_OneQueryPerScan ==
    /\ Len(wire) = Cardinality({i \in DOMAIN scanLog : scanLog[i] = "Ok"})
    /\ \A i \in DOMAIN wire :
          /\ wire[i].qname = sender.service_name
          /\ wire[i].qtype = "PTR"

\* C7 witness: two successful scans put two datagrams on the wire of a session
\* whose response sequence yielded an error and was dropped.
C7_Witness ==
    /\ scanLog = <<"Ok", "Ok">> /\ Len(wire) = 2
    /\ stream = "dropped" /\ FirstErr # {}

\* C8: what the caller has been handed is, in order, exactly the forwardable
\* part of what recv_from returned: origins strictly increase, every item is
\* the one its receive produced, and nothing forwardable is held back.
C8_OrderPreserved ==
    /\ \A i, j \in DOMAIN forwarded : i < j => forwarded[i].from < forwarded[j].from
    /\ \A j \in DOMAIN forwarded :
          LET n == forwarded[j].from
          IN  /\ n \in DOMAIN recvLog
              /\ forwarded[j].item =
                    IF recvLog[n].ok
                    THEN [tag |-> "Ok",
                          response |-> [answers |-> recvLog[n].dgram.packet.answers]]
                    ELSE ErrItem
    /\ \A n \in DOMAIN recvLog :
          (\/ ~recvLog[n].ok
           \/ \E i \in DOMAIN recvLog[n].dgram.packet.answers :
                  recvLog[n].dgram.packet.answers[i].name = captured.service_name)
              => ForwardedFrom(n)

\* C8 witness: the first and third receive were forwarded, in that order, and
\* the second was dropped in between.
C8_Witness ==
    /\ Len(recvLog) = 3 /\ Len(forwarded) = 2
    /\ forwarded[1].from = 1 /\ forwarded[2].from = 3
    /\ forwarded[1].item # forwarded[2].item

\* Helpers of the setup statements: they read the host and the setup record.
SocketReady == platform.create_ok /\ platform.loop_ok /\ platform.nonblock_ok
Joined == {setup.result.joins[i].addr :
              i \in {k \in DOMAIN setup.result.joins : setup.result.joins[k].ok}}
Attempted == {setup.result.joins[i].addr : i \in DOMAIN setup.result.joins}
NoHalves == phase = "failed" /\ ~sender.held /\ stream = "none"

\* C9: given a specific interface address, the group is joined on that
\* interface and on no other address; when that join fails setup fails with
\* the join's error, nothing else is tried and no Listener/Sender exists.
C9_SpecificInterfaceOnly ==
    (setup.called /\ setup.interface.some /\ SocketReady) =>
        LET a == setup.interface.val
        IN  /\ Len(setup.result.joins) = 1
            /\ Attempted = {a}
            /\ (a \in platform.joinable <=> Joined = {a})
            /\ (a \notin platform.joinable =>
                   /\ ~setup.result.ok
                   /\ setup.result.failed_at = "join_multicast_v4"
                   /\ Joined = {}
                   /\ NoHalves)

\* C9 witness: the requested interface refused the join while the wildcard
\* address and another interface would have accepted it, and setup failed.
C9_Witness ==
    /\ setup.called /\ setup.interface.some /\ SocketReady
    /\ setup.interface.val = 2
    /\ platform.joinable = {ADDR_ANY, 1}
    /\ Len(platform.ifaces) = MaxIfaces
    /\ phase = "failed"

EnumeratedV4 ==
    {platform.ifaces[i].addr : i \in {k \in DOMAIN platform.ifaces :
                                          platform.ifaces[k].kind = "v4"}}

\* C10 (as claimed): in all-interfaces mode setup succeeds whenever the join
\* succeeded on at least one enumerated non-loopback IPv4 interface.
C10_OneJoinSuffices ==
    (setup.called /\ ~setup.interface.some /\ Joined \ {ADDR_ANY} # {}) =>
        setup.result.ok

\* C10 (amended): in all-interfaces mode a join is attempted on every
\* enumerated non-loopback IPv4 interface, failures included, and when at
\* least one of them succeeds the join phase succeeds: setup can then fail
\* only in make_async_socket, and succeeds whenever that conversion does.
C10_OneJoinSufficesForJoinPhase ==
    (setup.called /\ ~setup.interface.some /\ SocketReady /\ platform.enum_ok) =>
        /\ EnumeratedV4 \subseteq Attempted
        /\ Joined \ {ADDR_ANY} = EnumeratedV4 \cap platform.joinable
        /\ (EnumeratedV4 \cap platform.joinable # {} =>
               /\ setup.result.failed_at \in {"none", "make_async_socket"}
               /\ (setup.result.ok <=>
                      (platform.runtime = "async_std" \/ platform.register_ok))
               /\ (platform.runtime = "async_std" => setup.result.ok))

\* C10 witness: of three enumerated IPv4 interfaces only the first accepts the
\* join, the wildcard address would refuse it, and setup succeeded.
C10_Witness ==
    /\ setup.called /\ ~setup.interface.some
    /\ Len(platform.ifaces) = 3
    /\ EnumeratedV4 = {1, 2, 3}
    /\ platform.joinable = {1}
    /\ Len(setup.result.joins) = 3
    /\ setup.result.ok /\ phase = "built"

\* C11 (as claimed): in all-interfaces mode the wildcard address is joined
\* exactly when no per-interface join succeeded, and then setup succeeds
\* exactly when the wildcard join succeeds.
C11_WildcardDecidesSetup ==
    (setup.called /\ ~setup.interface.some /\ SocketReady) =>
        /\ (ADDR_ANY \in Attempted <=> Joined \ {ADDR_ANY} = {})
        /\ (ADDR_ANY \in Attempted => (setup.result.ok <=> ADDR_ANY \in platform.joinable))

\* C11 (amended): in all-interfaces mode the wildcard address is joined
\* exactly when no per-interface join succeeded (nothing enumerated, or every
\* attempt failed), as the last attempt; the join phase then succeeds exactly
\* when the wildcard join does, and its failure is the one error setup
\* reports.  After a successful wildcard join setup succeeds unless
\* make_async_socket fails.
C11_WildcardOnlyAsLastResort ==
    (setup.called /\ ~setup.interface.some /\ SocketReady) =>
        LET js == setup.result.joins
        IN  /\ (ADDR_ANY \in Attempted <=> EnumeratedV4 \cap platform.joinable = {})
            /\ (ADDR_ANY \in Attempted <=> Joined \ {ADDR_ANY} = {})
            /\ \A i \in DOMAIN js : js[i].addr = ADDR_ANY => i = Len(js)
            /\ (ADDR_ANY \in Attempted =>
                   /\ (setup.result.failed_at = "join_multicast_v4"
                          <=> ADDR_ANY \notin platform.joinable)
                   /\ (setup.result.ok <=>
                          /\ ADDR_ANY \in platform.joinable
                          /\ (platform.runtime = "async_std" \/ platform.register_ok)))
            /\ (setup.result.failed_at = "join_multicast_v4" => ADDR_ANY \in Attempted)

\* C11 witness: three IPv4 interfaces were enumerated and all refused the join,
\* the wildcard address accepted it, and setup succeeded.
C11_Witness ==
    /\ setup.called /\ ~setup.interface.some
    /\ EnumeratedV4 = {1, 2, 3}
    /\ platform.joinable = {ADDR_ANY}
    /\ Len(setup.result.joins) = 4
    /\ setup.result.ok /\ phase = "built"

\* C12: the socket is open exactly while some half holds it.  With either
\* half dropped alone, in either order, it stays open for the other; when no
\* mDNSSender and no mDNSListener is left it is released.
ListenerAlive == phase = "built" \/ stream = "active"

C13_OneResponseAllRecords ==
    \A n \in DOMAIN recvLog :
        LET a == recvLog[n].dgram.packet.answers
        IN  (recvLog[n].ok /\ captured.service_name \in {a[i].name : i \in DOMAIN a}) =>
                /\ Cardinality({j \in DOMAIN forwarded : forwarded[j].from = n}) = 1
                /\ \A j \in DOMAIN forwarded :
                       forwarded[j].from = n =>
                           /\ forwarded[j].item.tag = "Ok"
                           /\ forwarded[j].item.response.answers = a

\* C13 witness: one datagram with an answer named the service name and one
\* named otherwise was received, and one Response with both records forwarded.
C13_Witness ==
    /\ Len(recvLog) = 1 /\ Len(forwarded) = 1
    /\ captured.service_name = Foo
    /\ forwarded[1].item.response.answers = <<Record(Foo), Record(Bar)>>

\* C14: whenever a Listener or Sender exists, setup returned Ok and the socket
\* has joined the group on at least one address, each of them the requested
\* one, an enumerated one or the wildcard; whenever setup failed, at whatever
\* call, no half exists, no handle to the socket is left, and nothing was
\* sent or received.
HalvesExist ==
    \/ phase \in {"built", "listening"}
    \/ sender.held \/ senders > 0
    \/ stream # "none"
    \/ socket.strong > 0 \/ socket.open

C14_JoinedBeforeUse ==
    /\ HalvesExist =>
          /\ setup.called /\ setup.result.ok
          /\ Joined # {}
          /\ Joined \subseteq platform.joinable
          /\ Joined \subseteq
                IF setup.interface.some THEN {setup.interface.val}
                ELSE EnumeratedV4 \cup {ADDR_ANY}
    /\ (setup.called /\ ~setup.result.ok) =>
          /\ setup.result.failed_at \in
                {"create_socket", "set_multicast_loop_v4", "set_nonblocking",
                 "join_multicast_v4", "make_async_socket"}
          /\ NoHalves /\ ~HalvesExist
          /\ wire = <<>> /\ recvLog = <<>>
    /\ (setup.called /\ (~SocketReady \/ (platform.runtime = "tokio" /\ ~platform.register_ok)))
          => ~setup.result.ok

\* C14 witness: the join succeeded on an enumerated interface but the async
\* wrapping failed, so setup failed with a joined socket and produced no half.
C14_Witness ==
    /\ setup.called /\ ~setup.interface.some
    /\ Joined = {2}
    /\ setup.result.failed_at = "make_async_socket"
    /\ phase = "failed"

\* C15: recv_from completes only while the caller is inside next(), one
\* datagram at a time; once an item has been handed over nothing is received
\* until the caller polls again; and user space holds one datagram, the one
\* last received, in the reused buffer.
LastOk == {n \in DOMAIN recvLog : recvLog[n].ok /\ \A m \in DOMAIN recvLog : m > n => ~recvLog[m].ok}

C15_Backpressure ==
    /\ [][recvLog' # recvLog =>
            /\ polling
            /\ Len(recvLog') = Len(recvLog) + 1
            /\ Len(forwarded') <= Len(forwarded) + 1
            /\ (forwarded' # forwarded => ~polling')]_vars
    /\ [](/\ Len(forwarded) <= Len(recvLog)
          /\ (polling => stream = "active")
          /\ \A n \in LastOk : recv_buffer = recvLog[n].dgram)

\* C15 witness: an item was handed over and the caller is not polling, while
\* the sequence is alive and further receives are possible.
C15_Witness ==
    /\ stream = "active" /\ ~polling
    /\ Len(forwarded) = 1 /\ Len(recvLog) = 2
    /\ Len(recvLog) < MaxRecv

\* C16: a failed send_to is the Err of that scan call and nothing more: the
\* call adds no datagram to the wire, leaves the Scanner, the socket and the
\* response sequence as they were, and a later scan adds its own datagram.
C16_SendErrorPerCall ==
    [][scanLog' # scanLog =>
          /\ Len(scanLog') = Len(scanLog) + 1
          /\ SubSeq(scanLog', 1, Len(scanLog)) = scanLog
          /\ (scanLog'[Len(scanLog')] = "Err" => wire' = wire)
          /\ (scanLog'[Len(scanLog')] = "Ok" =>
                 wire' = Append(wire, Query(sender.service_name)))
          /\ sender' = sender /\ senders' = senders /\ socket' = socket
          /\ stream' = stream /\ endSeen' = endSeen /\ polling' = polling
          /\ recvLog' = recvLog /\ yielded' = yielded /\ forwarded' = forwarded]_vars

\* C16 witness: a scan failed, put nothing on the wire, and the next scan of
\* the same Scanner succeeded, while the response sequence is still alive.
C16_Witness ==
    /\ scanLog = <<"Err", "Ok">> /\ Len(wire) = 1
    /\ stream = "active" /\ yielded = <<>>

\* C17: ignore_empty(b) changes the ignore_empty flag and nothing else of the
\* session; listen moves the session's (service name, ignore_empty) into the
\* filter; from then on the pair never changes.
C17_ConfigurationFrame ==
    /\ [][(phase = "built" /\ phase' = "built") =>
             /\ discovery'.service_name = discovery.service_name
             /\ sender' = sender /\ senders' = senders /\ socket' = socket
             /\ setup' = setup /\ stream' = stream /\ recv_buffer' = recv_buffer]_vars
    /\ [][(phase = "built" /\ phase' = "listening") => captured' = discovery]_vars
    /\ [][stream # "none" => captured' = captured]_vars
    /\ [](phase \in {"built", "listening"} =>
             discovery.service_name = setup.result.service_name)

\* C17 witness: a session configured with ignore_empty(false) is listening,
\* has scanned and received, and its filter still holds the configured pair.
C17_Witness ==
    /\ phase = "listening"
    /\ captured = [service_name |-> Bar, ignore_empty |-> FALSE]
    /\ Len(scanLog) = MaxScans /\ Len(recvLog) = MaxRecv

\* C18: a datagram of length zero is not handed to the decoder and yields
\* nothing; the loop goes on to the next receive inside the same poll.
\* Every datagram of positive length is handed to the decoder.
C18_ZeroLengthSkipped ==
    \A n \in DOMAIN recvLog :
        /\ (recvLog[n].ok /\ recvLog[n].dgram.count = 0) =>
              /\ n \notin decodeLog
              /\ \A k \in DOMAIN yielded : yielded[k].from # n
              /\ ~ForwardedFrom(n)
              /\ (n = Len(recvLog) => (stream = "active" /\ polling) \/ stream = "dropped")
        /\ (recvLog[n].ok /\ recvLog[n].dgram.count > 0) => n \in decodeLog
        /\ ~recvLog[n].ok => n \notin decodeLog

\* C18 witness: a zero-length datagram was received, then a decodable one,
\* which was handed to the decoder and yielded.
C18_Witness ==
    /\ Len(recvLog) = 2
    /\ recvLog[1] = RecvOk(ZeroLength)
    /\ recvLog[2].ok /\ recvLog[2].dgram.packet.valid
    /\ decodeLog = {2}
    /\ Len(yielded) = 1

\* C19 (as claimed): when the interface enumeration fails, the wildcard join
\* is the only join attempted and its outcome alone decides whether setup
\* succeeds.
C19_EnumFailureWildcardDecides ==
    (setup.called /\ ~setup.interface.some /\ SocketReady /\ ~platform.enum_ok) =>
        /\ Attempted = {ADDR_ANY}
        /\ (setup.result.ok <=> ADDR_ANY \in platform.joinable)

\* C19 (amended): when the interface enumeration fails, setup does not fail
\* for that reason: the wildcard join is the one join attempted, the join
\* phase succeeds exactly when it does, and setup then succeeds unless
\* make_async_socket fails.
C19_EnumFailureNotFatal ==
    (setup.called /\ ~setup.interface.some /\ SocketReady /\ ~platform.enum_ok) =>
        /\ setup.result.joins =
              <<[addr |-> ADDR_ANY, ok |-> ADDR_ANY \in platform.joinable]>>
        /\ (setup.result.failed_at = "join_multicast_v4"
               <=> ADDR_ANY \notin platform.joinable)
        /\ (setup.result.ok <=>
               /\ ADDR_ANY \in platform.joinable
               /\ (platform.runtime = "async_std" \/ platform.register_ok))

\* C19 witness: the enumeration failed, the wildcard address accepted the join
\* and setup succeeded.
C19_Witness ==
    /\ setup.called /\ ~setup.interface.some
    /\ ~platform.enum_ok
    /\ platform.joinable = {ADDR_ANY, 1}
    /\ setup.result.ok /\ phase = "built"

\* C20 (as claimed): after setup there are at most two live handles to the
\* socket, one send-side and one receive-side.
C20_AtMostTwoHandles == socket.strong <= 2 /\ senders <= 1

\* C20 (amended): the socket has at most one receive-side handle and one
\* send-side handle per live Scanner; the Scanner can be cloned, so there can
\* be more than one send-side handle.  The strong count is the number of
\* these handles, and the socket is released as soon as every Scanner and the
\* mDNSListener of the response sequence have been dropped.
RecvHandles == IF ListenerAlive THEN 1 ELSE 0

C20_OneHandlePerHalf ==
    /\ socket.strong = senders + RecvHandles
    /\ (phase = "built" => senders = 1 /\ socket.strong = 2)
    /\ (phase = "listening" /\ senders = 0 /\ RecvHandles = 0 => ~socket.open)
    /\ (socket.strong > 0 => socket.open)

\* C20 witness: the Scanner was cloned while the response sequence was alive:
\* three handles to the socket.
C20_Witness ==
    /\ senders = 2 /\ stream = "active" /\ socket.strong = 3

====
